---- MODULE Spec2Model ----
(***************************************************************************)
(* Model of the recursive batch-crawl orchestrator of crawlr                *)
(* (internal/crawler/crawler.go): StartBatchRecursiveCrawling, its helpers  *)
(* ExtractURLsFromHTML, makeAbsoluteURL, filterURLsForRecursive and         *)
(* prioritizeURLs, and the retry loop StartCrawlWithRetry.                  *)
(*                                                                         *)
(* URLs are strings, as in the source.  The string functions of the Go      *)
(* standard library the code calls (strings.Contains, HasPrefix, ToLower,   *)
(* net/url Parse, Hostname, ResolveReference) are computed character by     *)
(* character on those strings.                                              *)
(***************************************************************************)
EXTENDS Integers, Sequences, FiniteSets, TLC

(***************************************************************************)
(* strings.* of the Go standard library                                    *)
(***************************************************************************)
Char(s, i) == SubSeq(s, i, i)

HasPrefix(s, p) == Len(s) >= Len(p) /\ SubSeq(s, 1, Len(p)) = p

HasSuffix(s, p) == Len(s) >= Len(p) /\ SubSeq(s, Len(s) - Len(p) + 1, Len(s)) = p

Contains(s, sub) ==
    \E i \in 1..(Len(s) - Len(sub) + 1) : SubSeq(s, i, i + Len(sub) - 1) = sub

\* strings.Index, 1-based; 0 when sub does not occur
Index(s, sub) ==
    IF Contains(s, sub)
    THEN CHOOSE i \in 1..(Len(s) - Len(sub) + 1) :
            /\ SubSeq(s, i, i + Len(sub) - 1) = sub
            /\ \A j \in 1..(i - 1) : SubSeq(s, j, j + Len(sub) - 1) # sub
    ELSE 0

\* strings.LastIndex, 1-based; 0 when sub does not occur
LastIndex(s, sub) ==
    IF Contains(s, sub)
    THEN CHOOSE i \in 1..(Len(s) - Len(sub) + 1) :
            /\ SubSeq(s, i, i + Len(sub) - 1) = sub
            /\ \A j \in (i + 1)..(Len(s) - Len(sub) + 1) :
                   SubSeq(s, j, j + Len(sub) - 1) # sub
    ELSE 0

Upper == <<"A","B","C","D","E","F","G","H","I","J","K","L","M",
           "N","O","P","Q","R","S","T","U","V","W","X","Y","Z">>
Lower == <<"a","b","c","d","e","f","g","h","i","j","k","l","m",
           "n","o","p","q","r","s","t","u","v","w","x","y","z">>

LowerChar(c) ==
    IF \E k \in 1..26 : Upper[k] = c
    THEN Lower[CHOOSE k \in 1..26 : Upper[k] = c]
    ELSE c

RECURSIVE ToLower(_)
ToLower(s) ==
    IF Len(s) = 0 THEN ""
    ELSE LowerChar(Char(s, 1)) \o ToLower(SubSeq(s, 2, Len(s)))

(***************************************************************************)
(* net/url: Parse (error or not), URL.Hostname, URL.ResolveReference.       *)
(* Modelled for URLs of the form scheme://host[:port][/path][?q][#frag]     *)
(* and for references without a scheme.                                     *)
(***************************************************************************)
HexDigits == {"0","1","2","3","4","5","6","7","8","9",
              "a","b","c","d","e","f","A","B","C","D","E","F"}

\* url.Parse fails on a percent sign that is not followed by two hex digits
\* ("invalid URL escape")
ParseFails(s) ==
    \E i \in 1..Len(s) :
        /\ Char(s, i) = "%"
        /\ \/ i + 2 > Len(s)
           \/ Char(s, i + 1) \notin HexDigits
           \/ Char(s, i + 2) \notin HexDigits

\* position of the first character of the authority, 0 when there is none
AuthorityStart(s) ==
    IF Contains(s, "://") THEN Index(s, "://") + 3
    ELSE IF HasPrefix(s, "//") THEN 3
    ELSE 0

\* the authority runs to the first "/", "?" or "#" after its start
RECURSIVE AuthorityEnd(_, _)
AuthorityEnd(s, i) ==
    IF i > Len(s) \/ Char(s, i) \in {"/", "?", "#"} THEN i - 1
    ELSE AuthorityEnd(s, i + 1)

Authority(s) ==
    IF AuthorityStart(s) = 0 THEN ""
    ELSE SubSeq(s, AuthorityStart(s), AuthorityEnd(s, AuthorityStart(s)))

\* URL.Hostname: the host without user info and without port
Hostname(s) ==
    LET a  == Authority(s)
        h  == IF Contains(a, "@") THEN SubSeq(a, LastIndex(a, "@") + 1, Len(a)) ELSE a
    IN  IF Contains(h, ":") THEN SubSeq(h, 1, Index(h, ":") - 1) ELSE h

\* scheme://authority of an absolute URL
Origin(s) ==
    IF AuthorityStart(s) = 0 THEN ""
    ELSE SubSeq(s, 1, AuthorityEnd(s, AuthorityStart(s)))

\* the part of s before the first "?" or "#"
RECURSIVE PathEnd(_, _)
PathEnd(s, i) ==
    IF i > Len(s) \/ Char(s, i) \in {"?", "#"} THEN i - 1
    ELSE PathEnd(s, i + 1)

Letters == {Upper[k] : k \in 1..26} \cup {Lower[k] : k \in 1..26}

\* getScheme: a reference has a scheme when a run of letters is followed by ":"
HasScheme(s) ==
    \E i \in 2..Len(s) :
        /\ Char(s, i) = ":"
        /\ \A j \in 1..(i - 1) : Char(s, j) \in Letters

\* base.ResolveReference(rel).String() for a reference without dot segments;
\* url.Parse has put the scheme of rel in lower case
ResolveReference(base, rel) ==
    IF HasScheme(rel)
    THEN ToLower(SubSeq(rel, 1, Index(rel, ":"))) \o SubSeq(rel, Index(rel, ":") + 1, Len(rel))
    ELSE IF HasPrefix(rel, "//") THEN SubSeq(base, 1, Index(base, "://")) \o rel
    ELSE IF HasPrefix(rel, "/") THEN Origin(base) \o rel
    ELSE IF Len(rel) = 0 THEN SubSeq(base, 1, PathEnd(base, 1))
    ELSE LET a    == AuthorityEnd(base, AuthorityStart(base))
             p    == SubSeq(base, a + 1, PathEnd(base, a + 1))
             dir  == IF Contains(p, "/") THEN SubSeq(p, 1, LastIndex(p, "/")) ELSE "/"
         IN  Origin(base) \o dir \o rel

(***************************************************************************)
(* ExtractURLsFromHTML and makeAbsoluteURL.  A page body is modelled by the *)
(* sequence of href values the regular expression finds in it, in document  *)
(* order.                                                                   *)
(***************************************************************************)
RECURSIVE TrimLeft(_)
TrimLeft(s) ==
    IF Len(s) > 0 /\ Char(s, 1) = " " THEN TrimLeft(SubSeq(s, 2, Len(s))) ELSE s

RECURSIVE TrimRight(_)
TrimRight(s) ==
    IF Len(s) > 0 /\ Char(s, Len(s)) = " " THEN TrimRight(SubSeq(s, 1, Len(s) - 1)) ELSE s

TrimSpace(s) == TrimRight(TrimLeft(s))

\* makeAbsoluteURL: [err |-> BOOLEAN, url |-> the absolute URL]
makeAbsoluteURL(url, baseURL) ==
    IF HasPrefix(url, "http://") \/ HasPrefix(url, "https://")
    THEN [err |-> FALSE, url |-> url]
    ELSE IF ParseFails(baseURL) \/ ParseFails(url)
    THEN [err |-> TRUE, url |-> ""]
    ELSE [err |-> FALSE, url |-> ResolveReference(baseURL, url)]

\* the loop over the matches without the test of seen
RECURSIVE ExtractLoopNoSeen(_, _, _)
ExtractLoopNoSeen(matches, baseURL, urls) ==
    IF matches = <<>> THEN urls
    ELSE LET url == TrimSpace(Head(matches))
             abs == makeAbsoluteURL(url, baseURL)
         IN  IF \/ HasPrefix(url, "#")
                \/ HasPrefix(url, "javascript:")
                \/ HasPrefix(url, "mailto:")
             THEN ExtractLoopNoSeen(Tail(matches), baseURL, urls)
             ELSE IF abs.err
             THEN ExtractLoopNoSeen(Tail(matches), baseURL, urls)
             ELSE ExtractLoopNoSeen(Tail(matches), baseURL, Append(urls, abs.url))

\* the loop over the matches left at the first reference that makeAbsoluteURL
\* rejects
RECURSIVE ExtractLoopStopsAtError(_, _, _)
ExtractLoopStopsAtError(matches, baseURL, urls) ==
    IF matches = <<>> THEN urls
    ELSE LET url == TrimSpace(Head(matches))
             abs == makeAbsoluteURL(url, baseURL)
             seen == {urls[k] : k \in 1..Len(urls)}
         IN  IF \/ HasPrefix(url, "#")
                \/ HasPrefix(url, "javascript:")
                \/ HasPrefix(url, "mailto:")
             THEN ExtractLoopStopsAtError(Tail(matches), baseURL, urls)
             ELSE IF abs.err
             THEN urls
             ELSE IF abs.url \in seen
             THEN ExtractLoopStopsAtError(Tail(matches), baseURL, urls)
             ELSE ExtractLoopStopsAtError(Tail(matches), baseURL, Append(urls, abs.url))

\* the loop over the matches: urls is the output so far (seen is its range)
RECURSIVE ExtractLoop(_, _, _)
ExtractLoop(matches, baseURL, urls) ==
    IF matches = <<>> THEN urls
    ELSE LET url == TrimSpace(Head(matches))
             abs == makeAbsoluteURL(url, baseURL)
             seen == {urls[k] : k \in 1..Len(urls)}
         IN  IF \/ HasPrefix(url, "#")
                \/ HasPrefix(url, "javascript:")
                \/ HasPrefix(url, "mailto:")
             THEN ExtractLoop(Tail(matches), baseURL, urls)
             ELSE IF abs.err
             THEN ExtractLoop(Tail(matches), baseURL, urls)
             ELSE IF abs.url \in seen
             THEN ExtractLoop(Tail(matches), baseURL, urls)
             ELSE ExtractLoop(Tail(matches), baseURL, Append(urls, abs.url))

ExtractURLsFromHTML(html, baseURL) == ExtractLoop(html, baseURL, <<>>)

(***************************************************************************)
(* The URLs of the model: the seed, the page bodies the remote service can  *)
(* return, and every URL that can be extracted from them.                   *)
(***************************************************************************)
\* the seeds: one that parses and one that url.Parse rejects
Seeds == {"https://a.example/x", "https://a.example/%zz"}

\* page bodies, each given by its href values: a hub with three links of the
\* seed's host and one of another host, and a leaf with a fragment, a link
\* written twice and a link that url.Parse rejects
HubBody  == <<"/demo/1", "/docs/overview", "https://a.example/y", "https://b.example/z">>
LeafBody == <<"#top", " /list/ ", "https://a.example/%zz", "/list/">>
Bodies   == {<<>>, HubBody, LeafBody}

\* the page that redirects: for it the service can report MovedURL instead of
\* the submitted URL
RedirectingURL == "https://a.example/y"
MovedURL       == "https://a.example/moved"

\* the page the service can mark unsuccessful
BrokenURL == "https://a.example/docs/overview"

Range(s) == {s[k] : k \in 1..Len(s)}

\* the seed, the redirect target and every URL extracted from a body
KnownURLs ==
    Seeds \cup
    {MovedURL, "https://a.example/demo/1", "https://a.example/docs/overview",
     "https://a.example/y", "https://b.example/z", "https://a.example/list/",
     "https://a.example/%zz"}

(***************************************************************************)
(* TLC evaluates a constant function once.  The operators below look the    *)
(* value of a string function up when its argument is a URL of the model    *)
(* and compute it otherwise.                                                *)
(***************************************************************************)
ParseFailsTable == [u \in KnownURLs |-> ParseFails(u)]
ParseFailsOf(u) == IF u \in KnownURLs THEN ParseFailsTable[u] ELSE ParseFails(u)

HostnameTable == [u \in KnownURLs |-> Hostname(u)]
HostnameOf(u) == IF u \in KnownURLs THEN HostnameTable[u] ELSE Hostname(u)

ExtractTable == [b \in Bodies, u \in KnownURLs |-> ExtractURLsFromHTML(b, u)]
ExtractOf(html, baseURL) ==
    IF html \in Bodies /\ baseURL \in KnownURLs
    THEN ExtractTable[html, baseURL]
    ELSE ExtractURLsFromHTML(html, baseURL)

(***************************************************************************)
(* prioritizeURLs                                                          *)
(***************************************************************************)
discoveryPatterns ==
    {"/overview", "/docs", "/documentation", "/api", "/components", "/reference",
     "/guides", "/examples", "/tutorials", "/index", "/introduction",
     "/getting-started"}

\* the score with 10 added for every discovery pattern the URL contains
ScoreEveryPattern(url) ==
    LET lowerURL == ToLower(url)
    IN  10 * Cardinality({pattern \in discoveryPatterns : Contains(lowerURL, pattern)})
      + (IF Contains(lowerURL, "/list") THEN 8 ELSE 0)
      + (IF HasSuffix(lowerURL, "/") THEN 3 ELSE 0)
      + (IF ~Contains(lowerURL, "#") THEN 2 ELSE 0)
      - (IF \/ Contains(lowerURL, "/demo")
            \/ Contains(lowerURL, "/example")
            \/ Contains(lowerURL, "/playground")
         THEN 5 ELSE 0)

Score(url) ==
    LET lowerURL == ToLower(url)
    IN  (IF \E pattern \in discoveryPatterns : Contains(lowerURL, pattern) THEN 10 ELSE 0)
      + (IF Contains(lowerURL, "/list") THEN 8 ELSE 0)
      + (IF HasSuffix(lowerURL, "/") THEN 3 ELSE 0)
      + (IF ~Contains(lowerURL, "#") THEN 2 ELSE 0)
      - (IF \/ Contains(lowerURL, "/demo")
            \/ Contains(lowerURL, "/example")
            \/ Contains(lowerURL, "/playground")
         THEN 5 ELSE 0)

ScoreTable == [u \in KnownURLs |-> Score(u)]
ScoreOf(u) == IF u \in KnownURLs THEN ScoreTable[u] ELSE Score(u)

Swap(s, i, j) == [s EXCEPT ![i] = s[j], ![j] = s[i]]

\* for j := i + 1; j < len; j++ { if s[j].Score > s[i].Score { swap } }
RECURSIVE SortInner(_, _, _)
SortInner(s, i, j) ==
    IF j > Len(s) THEN s
    ELSE SortInner(IF s[j].Score > s[i].Score THEN Swap(s, i, j) ELSE s, i, j + 1)

\* the sort cut to its first pass: the highest score comes first, the rest stay
\* as they are
SortOuterOnePass(s, i) ==
    IF i > Len(s) - 1 THEN s
    ELSE SortInner(s, i, i + 1)

\* for i := 0; i < len - 1; i++ { ... }
RECURSIVE SortOuter(_, _)
SortOuter(s, i) ==
    IF i > Len(s) - 1 THEN s
    ELSE SortOuter(SortInner(s, i, i + 1), i + 1)

prioritizeURLs(urls) ==
    IF Len(urls) <= 1 THEN urls
    ELSE LET scoredURLs == [k \in 1..Len(urls) |-> [URL |-> urls[k], Score |-> ScoreOf(urls[k])]]
             sorted     == SortOuter(scoredURLs, 1)
         IN  [k \in 1..Len(sorted) |-> sorted[k].URL]

(***************************************************************************)
(* filterURLsForRecursive                                                  *)
(***************************************************************************)
\* the filter without the comparison of the hosts
filterWithoutHostCheck(urls, baseURL, visitedSet) ==
    IF ParseFailsOf(baseURL) THEN urls
    ELSE LET Keep(url) == url \notin visitedSet /\ ~ParseFailsOf(url)
         IN  prioritizeURLs(SelectSeq(urls, Keep))

filterURLsForRecursive(urls, baseURL, visitedSet) ==
    IF ParseFailsOf(baseURL) THEN urls
    ELSE LET baseDomain == HostnameOf(baseURL)
             Keep(url)  == /\ url \notin visitedSet
                           /\ ~ParseFailsOf(url)
                           /\ HostnameOf(url) = baseDomain
         IN  prioritizeURLs(SelectSeq(urls, Keep))

(***************************************************************************)
(* The run: StartBatchRecursiveCrawling and StartCrawlWithRetry             *)
(***************************************************************************)
\* bounds of the parameters the caller passes
MaxDepthBound == 2
MaxURLsBound  == 5
MaxBatchBound == 2

\* maxRetries as StartBatchRecursiveCrawling passes it to StartCrawlWithRetry
MaxRetries == 1

min(a, b) == IF a < b THEN a ELSE b

VARIABLES
    startURL, maxDepth, maxURLs, batchSize,  \* the parameters of the run
    frontier,        \* []URLWithDepth
    visited,         \* the keys of the visited map
    allResults,      \* the aggregated results, [URL, Success] each
    currentBatch,    \* the batch handed to StartCrawlWithRetry
    attempt,         \* the loop counter of StartCrawlWithRetry
    pc,              \* where the run is
    cancelled,       \* ctx.Done() is closed
    cancelObserved,  \* the select at the top of the loop has seen ctx.Done()
    dispatched,      \* history: the batches handed to StartCrawlWithRetry
    enqueued,        \* history: every entry ever placed in the frontier
    retErr, retSuccess,  \* what StartBatchRecursiveCrawling returns
    maxRetries,      \* the parameter maxRetries of StartCrawlWithRetry
    caller,          \* who called StartCrawlWithRetry: the orchestrator, or
                     \* another user of the exported method
    waits,           \* history: the backoff durations (seconds) of the call of
                     \* StartCrawlWithRetry in progress
    resp,            \* history: what the step just taken got from the remote
                     \* service (noResp when the step made no call)
    reporter,        \* a ProgressReporter: complete, completeChan (the number
                     \* of values in its buffer), updateMutex (its holder),
                     \* current, total
    callers,         \* where each goroutine that calls Complete or
                     \* WaitForCompletion on the reporter is
    input, output    \* the argument and the result of a function called alone

vars == <<startURL, maxDepth, maxURLs, batchSize, frontier, visited, allResults,
          currentBatch, attempt, pc, cancelled, cancelObserved, dispatched,
          enqueued, retErr, retSuccess, maxRetries, caller, waits, resp, reporter,
          callers, input, output>>

params == <<startURL, maxDepth, maxURLs, batchSize>>

\* what no step of a run changes
frame == <<params, maxRetries, caller, input, output, reporter, callers>>

\* no call of the remote service was made
noResp == [status |-> -1, body |-> ""]

\* NewProgressReporter(logger, operation, total): completeChan is
\* make(chan bool, 1), empty; updateMutex is the number of the goroutine that
\* holds it, 0 when it is free
NewProgressReporter(total) ==
    [complete |-> FALSE, completeChan |-> 0, updateMutex |-> 0, current |-> 0,
     total |-> total]

\* no goroutine uses the reporter
noCallers == [g \in {} |-> "idle"]

Init ==
    /\ startURL \in Seeds
    /\ maxDepth \in -1..MaxDepthBound
    /\ maxURLs \in 0..MaxURLsBound
    /\ batchSize \in 0..MaxBatchBound
    /\ frontier = <<[URL |-> startURL, Depth |-> 0]>>
    /\ visited = {}
    /\ allResults = <<>>
    /\ currentBatch = <<>>
    /\ attempt = 0
    /\ pc = "loop"
    /\ cancelled = FALSE
    /\ cancelObserved = FALSE
    /\ dispatched = <<>>
    /\ enqueued = {[URL |-> startURL, Depth |-> 0]}
    /\ retErr = "none"
    /\ retSuccess = FALSE
    /\ maxRetries = MaxRetries
    /\ caller = "orchestrator"
    /\ waits = <<>>
    /\ resp = noResp
    /\ reporter = NewProgressReporter(0)
    /\ callers = noCallers
    /\ input = <<>>
    /\ output = <<>>

\* the context of the run is cancelled (its timeout expires)
Cancel ==
    /\ pc # "done"
    /\ ~cancelled
    /\ cancelled' = TRUE
    /\ UNCHANGED <<frame, frontier, visited, allResults, currentBatch, attempt, pc,
                   cancelObserved, dispatched, enqueued, retErr, retSuccess, waits,
                   resp>>

\* the batch topped up: the first k entries of the whole frontier that can be
\* dispatched
SelectBatchToppedUp(front, k, vis, depthLimit) ==
    LET Eligible(e) == e.URL \notin vis /\ e.Depth <= depthLimit
        all == SelectSeq(front, Eligible)
    IN  SubSeq(all, 1, IF k < Len(all) THEN k ELSE Len(all))

\* the entries among the first k of the frontier that are dispatched
SelectBatch(front, k, vis, depthLimit) ==
    LET Eligible(e) == e.URL \notin vis /\ e.Depth <= depthLimit
    IN  SelectSeq(SubSeq(front, 1, k), Eligible)

BatchURLs(batch) == [k \in 1..Len(batch) |-> batch[k].URL]

\* the end of the run with Success taken from the visited set instead of the
\* results
FinishByVisited ==
    /\ pc' = "done"
    /\ retSuccess' = (Cardinality(visited) > 0)
    /\ retErr' = "nil"
    /\ UNCHANGED <<frontier, visited, currentBatch, attempt, dispatched>>

\* the end of StartBatchRecursiveCrawling: the combined response, whose Success
\* is len(allResults) > 0, and a nil error
Finish ==
    /\ pc' = "done"
    /\ retSuccess' = (Len(allResults) > 0)
    /\ retErr' = "nil"
    /\ UNCHANGED <<frontier, visited, currentBatch, attempt, dispatched>>

\* combinedResponse := &StartCrawlResponse{Success: ..., Results: allResults},
\* as the caller has it once the run is done
combinedResponse == [Success |-> retSuccess, Results |-> allResults]

\* the batch is taken from the head of the frontier, its URLs are marked
\* visited, and it is handed to StartCrawlWithRetry
PullBatch(batchSizeToProcess) ==
    LET batch == SelectBatch(frontier, batchSizeToProcess, visited, maxDepth)
    IN  /\ frontier' = SubSeq(frontier, batchSizeToProcess + 1, Len(frontier))
        /\ IF Len(batch) = 0
           THEN /\ pc' = "loop"
                /\ UNCHANGED <<visited, currentBatch, attempt, dispatched>>
           ELSE /\ currentBatch' = batch
                /\ visited' = visited \cup Range(BatchURLs(batch))
                /\ dispatched' = Append(dispatched,
                       [urls |-> BatchURLs(batch), outcome |-> "pending", added |-> 0])
                /\ attempt' = 0
                /\ pc' = "call"
        /\ UNCHANGED <<retErr, retSuccess>>

\* one pass through the top of the loop: the loop condition, the select on
\* ctx.Done() (its break leaves the select statement only, so the loop body
\* goes on), batchSizeToProcess and the batch
LoopTop ==
    /\ pc = "loop"
    /\ IF Len(frontier) > 0 /\ Len(allResults) < maxURLs
       THEN /\ cancelObserved' = (cancelObserved \/ cancelled)
            /\ LET batchSizeToProcess ==
                       min(batchSize, min(Len(frontier), maxURLs - Len(allResults)))
               IN  IF batchSizeToProcess <= 0 THEN Finish
                   ELSE PullBatch(batchSizeToProcess)
       ELSE /\ Finish
            /\ UNCHANGED cancelObserved
    /\ resp' = noResp
    /\ UNCHANGED <<frame, allResults, cancelled, enqueued, waits>>

\* the answers the remote service can give to a batch: any number of results up
\* to one more than submitted; result i carries the submitted URL (or the
\* target of its redirect), a success flag and a body
ReportedURLs(url) == IF url = RedirectingURL THEN {url, MovedURL} ELSE {url}

SuccessFlags(url) == IF url = BrokenURL THEN BOOLEAN ELSE {TRUE}

ResultChoices(batch, i) ==
    IF i <= Len(batch)
    THEN [URL : ReportedURLs(batch[i].URL), Success : SuccessFlags(batch[i].URL),
          HTML : Bodies]
    ELSE {[URL |-> MovedURL, Success |-> TRUE, HTML |-> HubBody]}

RECURSIVE ResponsesOfLen(_, _)
ResponsesOfLen(batch, n) ==
    IF n = 0 THEN {<<>>}
    ELSE {Append(r, x) : r \in ResponsesOfLen(batch, n - 1), x \in ResultChoices(batch, n)}

Responses(batch) == UNION {ResponsesOfLen(batch, n) : n \in 0..(Len(batch) + 1)}

\* the frontier items of a result whose page may be at maxDepth itself
NewItemsAtMaxDepth(crawlResult, entry) ==
    IF entry.Depth <= maxDepth
    THEN LET extractedURLs == ExtractOf(crawlResult.HTML, crawlResult.URL)
             filteredURLs  == filterURLsForRecursive(extractedURLs, startURL, visited)
         IN  IF Cardinality(visited) < maxURLs
             THEN [k \in 1..Len(filteredURLs) |->
                      [URL |-> filteredURLs[k], Depth |-> entry.Depth + 1]]
             ELSE <<>>
    ELSE <<>>

\* the frontier items of a result with the gate on the number of results
\* instead of the visited count
NewItemsGateOnResults(crawlResult, entry) ==
    IF entry.Depth < maxDepth
    THEN LET extractedURLs == ExtractOf(crawlResult.HTML, crawlResult.URL)
             filteredURLs  == filterURLsForRecursive(extractedURLs, startURL, visited)
         IN  IF Len(allResults) < maxURLs
             THEN [k \in 1..Len(filteredURLs) |->
                      [URL |-> filteredURLs[k], Depth |-> entry.Depth + 1]]
             ELSE <<>>
    ELSE <<>>

\* the frontier items one result contributes
NewItems(crawlResult, entry) ==
    IF entry.Depth < maxDepth
    THEN LET extractedURLs == ExtractOf(crawlResult.HTML, crawlResult.URL)
             filteredURLs  == filterURLsForRecursive(extractedURLs, startURL, visited)
         IN  IF Cardinality(visited) < maxURLs
             THEN [k \in 1..Len(filteredURLs) |->
                      [URL |-> filteredURLs[k], Depth |-> entry.Depth + 1]]
             ELSE <<>>
    ELSE <<>>

\* the loop over the results with each result put in front of the aggregate
RECURSIVE ProcessResultsPrepends(_, _, _, _, _)
ProcessResultsPrepends(results, batch, i, aggregated, newFrontierItems) ==
    IF i > Len(results) \/ i > Len(batch)
    THEN [allResults |-> aggregated, newFrontierItems |-> newFrontierItems]
    ELSE ProcessResultsPrepends(results, batch, i + 1,
             <<[URL |-> results[i].URL, Success |-> results[i].Success]>> \o aggregated,
             newFrontierItems \o NewItems(results[i], batch[i]))

\* the loop over the results without the check i >= len(currentBatch): a result
\* beyond the batch is taken with the depth of the last entry
RECURSIVE ProcessResultsUnchecked(_, _, _, _, _)
ProcessResultsUnchecked(results, batch, i, aggregated, newFrontierItems) ==
    IF i > Len(results)
    THEN [allResults |-> aggregated, newFrontierItems |-> newFrontierItems]
    ELSE ProcessResultsUnchecked(results, batch, i + 1,
             Append(aggregated, [URL |-> results[i].URL, Success |-> results[i].Success]),
             newFrontierItems \o NewItems(results[i], batch[min(i, Len(batch))]))

\* for i, crawlResult := range result.Results { ... }
RECURSIVE ProcessResults(_, _, _, _, _)
ProcessResults(results, batch, i, aggregated, newFrontierItems) ==
    IF i > Len(results) \/ i > Len(batch)
    THEN [allResults |-> aggregated, newFrontierItems |-> newFrontierItems]
    ELSE ProcessResults(results, batch, i + 1,
             Append(aggregated, [URL |-> results[i].URL, Success |-> results[i].Success]),
             newFrontierItems \o NewItems(results[i], batch[i]))

MarkOutcome(outcome, added) ==
    [dispatched EXCEPT ![Len(dispatched)] = [@ EXCEPT !.outcome = outcome, !.added = added]]

\* the error of StartCrawlWithRetry handled by starting the aggregate afresh
OnBatchErrorDropsResults(outcome) ==
    /\ pc' = "loop"
    /\ dispatched' = MarkOutcome(outcome, 0)
    /\ currentBatch' = <<>>
    /\ attempt' = 0
    /\ waits' = <<>>
    /\ allResults' = <<>>
    /\ UNCHANGED <<frontier, enqueued, retErr>>

\* the error of StartCrawlWithRetry handled by giving up the run: return nil, err
OnBatchErrorAbort(outcome) ==
    /\ pc' = "done"
    /\ dispatched' = MarkOutcome(outcome, 0)
    /\ currentBatch' = <<>>
    /\ attempt' = 0
    /\ waits' = <<>>
    /\ UNCHANGED <<frontier, allResults, enqueued, retErr>>

\* StartCrawlWithRetry returned an error: the orchestrator logs it and continues
OnBatchError(outcome) ==
    /\ pc' = "loop"
    /\ dispatched' = MarkOutcome(outcome, 0)
    /\ currentBatch' = <<>>
    /\ attempt' = 0
    /\ waits' = <<>>
    /\ UNCHANGED <<frontier, allResults, enqueued, retErr>>

\* StartCrawlWithRetry returns to a caller other than the orchestrator
ReturnToCaller(err) ==
    /\ pc' = "done"
    /\ retErr' = err
    /\ UNCHANGED <<frontier, allResults, currentBatch, attempt, dispatched, enqueued, waits>>

\* return nil, err
ReturnError(err) ==
    IF caller = "orchestrator" THEN OnBatchError(err) ELSE ReturnToCaller(err)

\* the backoff before attempt k (0-based, k >= 1), in seconds, as a wait without
\* the square would have it
backoffLinear(k) == k

\* backoffDuration := time.Duration(attempt*attempt) * time.Second
backoffDuration(k) == k * k

\* what client.Do and io.ReadAll can give for one request: no response at all
\* (status 0, with the error of client.Do in the place of the body), or a
\* status with a body that parses as JSON or does not. The request carries ctx
\* (http.NewRequestWithContext), so under a cancelled context client.Do
\* returns the context's error.
Statuses == {200, 202, 500}

\* the answers with a request that does not carry ctx (http.NewRequest)
RepliesWithoutContext(ctxDone) ==
    {[status |-> 0, body |-> "connection refused"]}
        \cup [status : Statuses, body : {"json", "garbage"}]

Replies(ctxDone) ==
    IF ctxDone THEN {[status |-> 0, body |-> "context canceled"]}
    ELSE {[status |-> 0, body |-> "connection refused"]}
             \cup [status : Statuses, body : {"json", "garbage"}]

\* StartCrawlWithConfig without the test of the status code: every body that
\* parses is returned as a response
StartCrawlWithConfigNoStatusCheck(reply) ==
    IF reply.status = 0
    THEN [result |-> "nil", err |-> "failed to send request"]
    ELSE IF reply.body = "garbage"
    THEN [result |-> "nil", err |-> "failed to unmarshal response"]
    ELSE [result |-> "response", err |-> "nil"]

\* StartCrawlWithConfig, from the answer of client.Do on: (*StartCrawlResponse,
\* error)
StartCrawlWithConfig(reply) ==
    IF reply.status = 0
    THEN [result |-> "nil", err |-> "failed to send request"]
    ELSE IF reply.status # 200 /\ reply.status # 202
    THEN [result |-> "nil",
          err |-> IF reply.body = "garbage" THEN "failed to unmarshal error response"
                  ELSE "APIError"]
    ELSE IF reply.body = "garbage"
    THEN [result |-> "nil", err |-> "failed to unmarshal response"]
    ELSE [result |-> "response", err |-> "nil"]

\* the loop of StartCrawlWithRetry with one attempt too many: a retry is
\* started while attempt <= maxRetries
CallFailsOneMore ==
    /\ pc = "call"
    /\ \E reply \in Replies(cancelled) :
           /\ StartCrawlWithConfig(reply).err # "nil"
           /\ resp' = reply
    /\ IF attempt <= maxRetries
       THEN /\ attempt' = attempt + 1
            /\ waits' = Append(waits, backoffDuration(attempt + 1))
            /\ pc' = "backoff"
            /\ UNCHANGED <<frontier, allResults, currentBatch, dispatched, enqueued, retErr>>
       ELSE ReturnError("failed")
    /\ UNCHANGED <<frame, visited, cancelled, cancelObserved, retSuccess>>

\* StartCrawlWithConfig fails (transport error, status other than 200/202, or
\* a cancelled context): the loop goes to the next attempt, whose backoff wait
\* starts, or returns the error after the last one
CallFails ==
    /\ pc = "call"
    /\ \E reply \in Replies(cancelled) :
           /\ StartCrawlWithConfig(reply).err # "nil"
           /\ resp' = reply
    /\ IF attempt + 1 <= maxRetries
       THEN /\ attempt' = attempt + 1
            /\ waits' = Append(waits, backoffDuration(attempt + 1))
            /\ pc' = "backoff"
            /\ UNCHANGED <<frontier, allResults, currentBatch, dispatched, enqueued, retErr>>
       ELSE ReturnError("failed")
    /\ UNCHANGED <<frame, visited, cancelled, cancelObserved, retSuccess>>

\* frontier = append(newFrontierItems, frontier...), with the new items put
\* behind the queued entries instead
AppendBehind(newFrontierItems, queued) == queued \o newFrontierItems

\* frontier = append(newFrontierItems, frontier...)
Prepend(newFrontierItems, queued) == newFrontierItems \o queued

\* the response taken with a new attempt started when it holds an unsuccessful
\* result
TakeResponseRetriesPartial(results) ==
    /\ IF Len(results) = 0
       THEN /\ dispatched' = MarkOutcome("ok", 0)
            /\ UNCHANGED <<frontier, allResults, enqueued>>
       ELSE LET done == ProcessResults(results, currentBatch, 1, allResults, <<>>)
            IN  /\ allResults' = done.allResults
                /\ frontier' = Prepend(done.newFrontierItems, frontier)
                /\ enqueued' = enqueued \cup Range(done.newFrontierItems)
                /\ dispatched' =
                       MarkOutcome("ok", Len(done.allResults) - Len(allResults))
    /\ IF \E k \in 1..Len(results) : ~results[k].Success
       THEN /\ pc' = "call"
            /\ UNCHANGED <<currentBatch, attempt, waits>>
       ELSE /\ pc' = "loop"
            /\ currentBatch' = <<>>
            /\ attempt' = 0
            /\ waits' = <<>>
    /\ UNCHANGED <<visited, retErr>>

\* the response taken with the discovered URLs marked visited as they are
\* put in the frontier
TakeResponseMarksDiscovered(results) ==
    /\ IF Len(results) = 0
       THEN /\ dispatched' = MarkOutcome("ok", 0)
            /\ UNCHANGED <<frontier, allResults, enqueued, visited>>
       ELSE LET done == ProcessResults(results, currentBatch, 1, allResults, <<>>)
            IN  /\ allResults' = done.allResults
                /\ frontier' = Prepend(done.newFrontierItems, frontier)
                /\ enqueued' = enqueued \cup Range(done.newFrontierItems)
                /\ visited' = visited \cup {e.URL : e \in Range(done.newFrontierItems)}
                /\ dispatched' =
                       MarkOutcome("ok", Len(done.allResults) - Len(allResults))
    /\ pc' = "loop"
    /\ currentBatch' = <<>>
    /\ attempt' = 0
    /\ waits' = <<>>
    /\ UNCHANGED retErr

\* StartCrawlWithRetry returned a response to the orchestrator: the results
\* are aggregated, their links extracted, filtered, and put at the head of the
\* frontier
TakeResponse(results) ==
    /\ IF Len(results) = 0
       THEN /\ dispatched' = MarkOutcome("ok", 0)
            /\ UNCHANGED <<frontier, allResults, enqueued>>
       ELSE LET done == ProcessResults(results, currentBatch, 1, allResults, <<>>)
            IN  /\ allResults' = done.allResults
                /\ frontier' = Prepend(done.newFrontierItems, frontier)
                /\ enqueued' = enqueued \cup Range(done.newFrontierItems)
                /\ dispatched' =
                       MarkOutcome("ok", Len(done.allResults) - Len(allResults))
    /\ pc' = "loop"
    /\ currentBatch' = <<>>
    /\ attempt' = 0
    /\ waits' = <<>>
    /\ UNCHANGED <<visited, retErr>>

\* StartCrawlWithConfig answers and StartCrawlWithRetry returns the response
\* (err == nil, whatever the success flags of the results)
CallSucceeds ==
    /\ pc = "call"
    /\ \E reply \in Replies(cancelled) :
           /\ StartCrawlWithConfig(reply).err = "nil"
           /\ resp' = reply
    /\ IF caller = "orchestrator"
       THEN \E results \in Responses(currentBatch) : TakeResponse(results)
       ELSE ReturnToCaller("nil") /\ UNCHANGED visited
    /\ UNCHANGED <<frame, cancelled, cancelObserved, retSuccess>>

\* the backoff wait with a ctx.Done() case that gives up with the error of the
\* last attempt instead of ctx.Err()
BackoffReturnsLastErr ==
    /\ pc = "backoff"
    /\ resp' = noResp
    /\ \/ /\ cancelled
          /\ ReturnError("failed")
       \/ /\ pc' = "call"
          /\ UNCHANGED <<frontier, allResults, currentBatch, attempt, dispatched,
                         enqueued, waits, retErr>>
    /\ UNCHANGED <<frame, visited, cancelled, cancelObserved, retSuccess>>

\* the backoff wait of StartCrawlWithRetry, a select on ctx.Done() and the
\* timer: the ctx.Done() case returns ctx.Err(); the timer case lets the attempt
\* start (when both are ready the select takes either)
Backoff ==
    /\ pc = "backoff"
    /\ resp' = noResp
    /\ \/ /\ cancelled
          /\ ReturnError("cancelled")
       \/ /\ pc' = "call"
          /\ UNCHANGED <<frontier, allResults, currentBatch, attempt, dispatched,
                         enqueued, waits, retErr>>
    /\ UNCHANGED <<frame, visited, cancelled, cancelObserved, retSuccess>>

Next ==
    \/ Cancel
    \/ LoopTop
    \/ CallFails
    \/ CallSucceeds
    \/ Backoff

Spec == Init /\ [][Next]_vars

\* the scheduling of the run: the single thread of the orchestrator always takes
\* its next step; the cancellation may or may not come
FairSpec == Spec /\ WF_vars(LoopTop \/ CallFails \/ CallSucceeds \/ Backoff)

(***************************************************************************)
(* StartCrawlWithRetry called on its own, and the pure functions called on *)
(* their own                                                                *)
(***************************************************************************)
\* bounds of the inputs
MaxRetriesBound == 3
MaxInputLen     == 3

\* the orchestrator is not running
OrchestratorIdle ==
    /\ startURL = ""
    /\ maxDepth = 0
    /\ maxURLs = 0
    /\ batchSize = 0
    /\ frontier = <<>>
    /\ visited = {}
    /\ allResults = <<>>
    /\ cancelObserved = FALSE
    /\ dispatched = <<>>
    /\ enqueued = {}
    /\ retErr = "none"
    /\ retSuccess = FALSE

\* the urls a caller hands to StartCrawlWithRetry (held as batch entries)
RetryBatches ==
    {<<[URL |-> u, Depth |-> 0]>> : u \in Seeds} \cup
    {<<[URL |-> "https://a.example/x", Depth |-> 0],
       [URL |-> "https://a.example/y", Depth |-> 0]>>}

\* StartCrawlWithRetry(ctx, urls, ..., maxRetries) is entered: attempt := 0
RetryInit ==
    /\ OrchestratorIdle
    /\ caller = "direct"
    /\ maxRetries \in 0..MaxRetriesBound
    /\ currentBatch \in RetryBatches
    /\ attempt = 0
    /\ waits = <<>>
    /\ resp = noResp
    /\ reporter = NewProgressReporter(0)
    /\ callers = noCallers
    /\ pc = "call"
    /\ cancelled = FALSE
    /\ input = <<>>
    /\ output = <<>>

RetryNext ==
    \/ Cancel
    \/ CallFails
    \/ CallSucceeds
    \/ Backoff

RetrySpec == RetryInit /\ [][RetryNext]_vars

\* the sequences over S of length at most n
SeqsUpTo(S, n) == UNION {[1..k -> S] : k \in 0..n}

\* URLs of every score the model's pages have (2, 2, 12, -3 and 13), of the
\* highest and the lowest score, one in capitals, and one that matches several
\* hub patterns and several low-value patterns
ScoredURLs ==
    {"https://a.example/x", "https://a.example/y", "https://a.example/docs/overview",
     "https://a.example/demo/1", "https://a.example/list/",
     "https://a.example/docs/list/", "https://a.example/demo/1#top",
     "https://a.example/DOCS/Overview", "https://a.example/examples/playground/"}

PrioritizeInputs == SeqsUpTo(ScoredURLs, MaxInputLen)

\* href values of a page: an anchor, a mailto link, a script link written with
\* capitals, relative and absolute references to the same pages, with and
\* without blanks around them, and a reference url.Parse rejects
Hrefs == {"#top", "mailto:a@a.example", "JavaScript:void(0)", " /list/ ", "/list/", "/y",
          "https://a.example/y", "/%zz"}

ExtractInputs ==
    [html : SeqsUpTo(Hrefs, MaxInputLen),
     baseURL : {"https://a.example/x", "https://a.example/%zz"}]

PureInit ==
    /\ OrchestratorIdle
    /\ caller = "direct"
    /\ maxRetries = 0
    /\ currentBatch = <<>>
    /\ attempt = 0
    /\ waits = <<>>
    /\ resp = noResp
    /\ reporter = NewProgressReporter(0)
    /\ callers = noCallers
    /\ cancelled = FALSE
    /\ output = <<>>
    /\ \/ pc = "prioritizeURLs" /\ input \in PrioritizeInputs
       \/ pc = "ExtractURLsFromHTML" /\ input \in ExtractInputs

pureRest == <<params, frontier, visited, allResults, currentBatch, attempt, cancelled,
              cancelObserved, dispatched, enqueued, retSuccess, maxRetries,
              caller, waits, resp, reporter, callers, input>>

\* result := c.prioritizeURLs(urls)
CallPrioritize ==
    /\ pc = "prioritizeURLs"
    /\ output' = prioritizeURLs(input)
    /\ pc' = "prioritized"
    /\ UNCHANGED <<pureRest, retErr>>

\* the call with a seen map that outlives the call: a URL returned by the call
\* before is skipped
CallExtractSharedSeen ==
    /\ pc \in {"ExtractURLsFromHTML", "extracted"}
    /\ output' = SelectSeq(ExtractURLsFromHTML(input.html, input.baseURL),
                           LAMBDA u : u \notin Range(output))
    /\ pc' = IF pc = "extracted" THEN "extracted again" ELSE "extracted"
    /\ retErr' = "nil"
    /\ UNCHANGED pureRest

\* urls, err := c.ExtractURLsFromHTML(html, baseURL), called once and then once
\* more with the same arguments; err is the nil of "return urls, nil"
CallExtract ==
    /\ pc \in {"ExtractURLsFromHTML", "extracted"}
    /\ output' = ExtractURLsFromHTML(input.html, input.baseURL)
    /\ pc' = IF pc = "extracted" THEN "extracted again" ELSE "extracted"
    /\ retErr' = "nil"
    /\ UNCHANGED pureRest

PureNext ==
    \/ CallPrioritize
    \/ CallExtract

PureSpec == PureInit /\ [][PureNext]_vars

(***************************************************************************)
(* ProgressReporter: Complete and WaitForCompletion called by goroutines    *)
(* that share one reporter                                                  *)
(***************************************************************************)
\* bounds: the goroutines that wait, the calls of Complete, the totals
MaxWaiters    == 3
MaxCompleters == 2
MaxTotal      == 1

\* the goroutines, by number: those that call WaitForCompletion, then those
\* that call Complete
Waiters    == 1..MaxWaiters
Completers == (MaxWaiters + 1)..(MaxWaiters + MaxCompleters)

\* everything of the crawl
crawlVars == <<params, frontier, visited, allResults, currentBatch, attempt, pc,
               cancelled, cancelObserved, dispatched, enqueued, retErr, retSuccess,
               maxRetries, caller, waits, resp, input, output>>

ProgressInit ==
    /\ OrchestratorIdle
    /\ caller = "direct"
    /\ maxRetries = 0
    /\ currentBatch = <<>>
    /\ attempt = 0
    /\ waits = <<>>
    /\ resp = noResp
    /\ cancelled = FALSE
    /\ input = <<>>
    /\ output = <<>>
    /\ pc = "progress"
    /\ \E total \in 0..MaxTotal : reporter = NewProgressReporter(total)
    /\ callers = [g \in Waiters \cup Completers |-> "idle"]

\* p.updateMutex.Lock() of Complete
CompleteLock(g) ==
    /\ g \in Completers
    /\ callers[g] = "idle"
    /\ reporter.updateMutex = 0
    /\ reporter' = [reporter EXCEPT !.updateMutex = g]
    /\ callers' = [callers EXCEPT ![g] = "locked"]
    /\ UNCHANGED crawlVars

\* the body of Complete under the mutex, and the deferred Unlock: the first
\* call sets complete and current and sends one value if the buffer has room
\* (select with default); a later call does nothing
CompleteBody(g) ==
    /\ g \in Completers
    /\ callers[g] = "locked"
    /\ reporter' =
           IF ~reporter.complete
           THEN [reporter EXCEPT !.complete = TRUE,
                                 !.current = reporter.total,
                                 !.completeChan = IF @ < 1 THEN @ + 1 ELSE @,
                                 !.updateMutex = 0]
           ELSE [reporter EXCEPT !.updateMutex = 0]
    /\ callers' = [callers EXCEPT ![g] = "returned"]
    /\ UNCHANGED crawlVars

\* WaitForCompletion is called: the goroutine is at <-p.completeChan
WaitCalled(g) ==
    /\ g \in Waiters
    /\ callers[g] = "idle"
    /\ callers' = [callers EXCEPT ![g] = "receiving"]
    /\ UNCHANGED <<reporter, crawlVars>>

\* <-p.completeChan takes a value out of the buffer and WaitForCompletion
\* returns
WaitReceives(g) ==
    /\ g \in Waiters
    /\ callers[g] = "receiving"
    /\ reporter.completeChan > 0
    /\ reporter' = [reporter EXCEPT !.completeChan = @ - 1]
    /\ callers' = [callers EXCEPT ![g] = "returned"]
    /\ UNCHANGED crawlVars

ProgressNext ==
    \E g \in Waiters \cup Completers :
        \/ CompleteLock(g)
        \/ CompleteBody(g)
        \/ WaitCalled(g)
        \/ WaitReceives(g)

\* the scheduler lets every goroutine that can take a step take it
ProgressSpec ==
    /\ ProgressInit
    /\ [][ProgressNext]_vars
    /\ \A g \in Waiters \cup Completers :
           WF_vars(CompleteLock(g) \/ CompleteBody(g) \/ WaitCalled(g) \/ WaitReceives(g))

(***************************************************************************)
(* Properties                                                              *)
(***************************************************************************)
\* every URL handed to StartCrawlWithRetry, in the order of dispatch
RECURSIVE Flatten(_)
Flatten(batches) ==
    IF batches = <<>> THEN <<>> ELSE Head(batches).urls \o Flatten(Tail(batches))

DispatchedURLs == Flatten(dispatched)

NoRepeat(seq) == \A i, j \in 1..Len(seq) : i # j => seq[i] # seq[j]

ResultURLs == [k \in 1..Len(allResults) |-> allResults[k].URL]

AnsweredBatches == SelectSeq(dispatched, LAMBDA b : b.outcome = "ok")

ServiceEchoes ==
    /\ \A k \in 1..Len(dispatched) :
           dispatched[k].outcome = "ok" => dispatched[k].added = Len(dispatched[k].urls)
    /\ ResultURLs = Flatten(AnsweredBatches)

VisitedWithinCap == Cardinality(visited) <= maxURLs

\* C4: every entry ever placed in the frontier has depth <= maxDepth, whatever
\* maxDepth the caller passes.
EnqueuedDepthBounded == \A e \in enqueued : e.Depth <= maxDepth

\* C5: every URL recorded in the results list is in the visited set, whatever
\* URL the service puts in a result.
ResultsAreVisited == \A k \in 1..Len(allResults) : allResults[k].URL \in visited

\* the inputs filterURLsForRecursive is checked on: what ExtractURLsFromHTML
\* yields for the bodies of the model, the list of the example, and a list with
\* a repeated URL, a URL that url.Parse rejects and a URL with a port
FilterInputs ==
    {ExtractOf(b, u) : b \in Bodies, u \in KnownURLs} \cup
    {<<"https://a.example/y", "https://b.example/z">>,
     <<"https://a.example/y", "https://a.example/%zz", "https://a.example/y",
       "https://b.example/z", "https://a.example:8443/list/">>}

Count(seq, x) == Cardinality({k \in 1..Len(seq) : seq[k] = x})

SameElements(s, t) ==
    /\ Len(s) = Len(t)
    /\ \A x \in Range(s) \cup Range(t) : Count(s, x) = Count(t, x)

\* the URLs of a list that parse, have the host of the seed and are not visited
InScope(urls, seed, visitedSet) ==
    SelectSeq(urls, LAMBDA u : /\ u \notin visitedSet
                               /\ ~ParseFailsOf(u)
                               /\ HostnameOf(u) = HostnameOf(seed))

\* C6: for a seed that parses, filterURLsForRecursive returns exactly the input
\* URLs that have the seed's host and are not visited (a URL that does not
\* parse is skipped), so every dispatched URL other than the seed has the
\* seed's host; for seed https://a.example/x and candidates
\* [https://a.example/y, https://b.example/z] it returns only https://a.example/y.
FilterKeepsSeedHostUnvisited ==
    ~ParseFailsOf(startURL) =>
        /\ \A urls \in FilterInputs :
               SameElements(filterURLsForRecursive(urls, startURL, visited),
                            InScope(urls, startURL, visited))
        /\ \A k \in 1..Len(DispatchedURLs) :
               \/ DispatchedURLs[k] = startURL
               \/ HostnameOf(DispatchedURLs[k]) = HostnameOf(startURL)
        /\ filterURLsForRecursive(<<"https://a.example/y", "https://b.example/z">>,
                                  "https://a.example/x", {})
               = <<"https://a.example/y">>

\* C6 witness: the links of the hub page went through the filter (a link of the
\* seed's host is enqueued, the link to the other host is not) and a URL that
\* came out of the filter has been dispatched.
FilterDroppedForeignLink ==
    /\ ~ParseFailsOf(startURL)
    /\ \E e \in enqueued : e.URL = "https://a.example/demo/1"
    /\ \A e \in enqueued : e.URL # "https://b.example/z"
    /\ \E k \in 1..Len(DispatchedURLs) : DispatchedURLs[k] # startURL

\* C7 (exit condition): for batchSize >= 1 the loop has ended only with the
\* frontier drained or with the cap reached, |visited| >= maxURLs.
ExitsOnDrainOrCap ==
    (pc = "done" /\ batchSize >= 1) =>
        (Len(frontier) = 0 \/ Cardinality(visited) >= maxURLs)

\* C7 (termination): under the scheduling of FairSpec every run ends.
Terminates == <>(pc = "done")

\* C8: once the cancellation signal is set, the check at the top of the next
\* loop iteration ends the loop: from that check on no entry is removed from the
\* frontier, no URL is added to the visited set and no batch is dispatched.
CancelStopsLoop ==
    [][((pc = "loop" /\ cancelled) \/ cancelObserved) =>
          /\ frontier' = frontier
          /\ visited' = visited
          /\ Len(dispatched') = Len(dispatched)]_vars

\* C9: a run in which the loop has observed the cancellation returns it to the
\* caller: the returned error is not nil.
CancellationSurfaced == (pc = "done" /\ cancelObserved) => retErr # "nil"

\* the last dispatched batch goes from pending to failed in this step
BatchFailsNow ==
    /\ Len(dispatched) > 0
    /\ Len(dispatched') = Len(dispatched)
    /\ dispatched[Len(dispatched)].outcome = "pending"
    /\ dispatched'[Len(dispatched)].outcome = "failed"

\* C10: when a batch fails all its attempts the run is not aborted: the results
\* aggregated so far stay as they are and the loop goes on with the frontier
\* entries that remain.
FailedBatchIsSkipped ==
    [][BatchFailsNow =>
          /\ allResults' = allResults
          /\ frontier' = frontier
          /\ pc' = "loop"]_vars

\* C10 witness: a batch failed all its attempts and a later batch added results.
ResultsAfterFailedBatch ==
    \E i, j \in 1..Len(dispatched) :
        /\ i < j
        /\ dispatched[i].outcome = "failed"
        /\ dispatched[j].outcome = "ok"
        /\ dispatched[j].added > 0

\* C11: a batch of the orchestrator whose every attempt fails has had exactly
\* 3 calls of the remote service when it is reported as failed (the call that
\* fails last is call number attempt + 1: every pass of the retry loop makes one).
FailedBatchCalledThreeTimes ==
    [][BatchFailsNow => attempt + 1 = 3]_vars

\* C12: in StartCrawlWithRetry no wait precedes the first call, the wait before
\* retry attempt k is k*k seconds (1, then 4), and each wait is longer than the
\* one before.
BackoffWaitsAreSquares ==
    /\ Len(waits) = attempt
    /\ attempt = 0 => waits = <<>>
    /\ \A k \in 1..Len(waits) : waits[k] = k * k
    /\ Len(waits) >= 1 => waits[1] = 1
    /\ Len(waits) >= 2 => waits[2] = 4
    /\ \A k \in 2..Len(waits) : waits[k] > waits[k - 1]

\* C12 witness: the second retry attempt has started, after waits of 1 and 4.
SecondRetryAfterTwoWaits ==
    /\ caller = "direct"
    /\ pc = "call"
    /\ attempt = 2
    /\ waits = <<1, 4>>

\* the select of the backoff wait takes the ctx.Done() case in this step
CancelObservedInBackoff ==
    /\ pc = "backoff"
    /\ cancelled
    /\ pc' # "call"

\* C13: when the cancellation is observed in a backoff wait, StartCrawlWithRetry
\* returns the cancellation error at once and starts no further attempt.
CancelInBackoffReturns ==
    [][CancelObservedInBackoff =>
          /\ pc' = "done"
          /\ retErr' = "cancelled"
          /\ attempt' = attempt
          /\ waits' = waits]_vars

\* C13 witness: StartCrawlWithRetry has returned the cancellation error from a
\* backoff wait with attempts still left.
CancelledWithAttemptsLeft ==
    /\ caller = "direct"
    /\ pc = "done"
    /\ retErr = "cancelled"
    /\ attempt >= 1
    /\ attempt <= maxRetries

\* the URLs of a list that have a given score, in the order of the list
WithScore(urls, score) == SelectSeq(urls, LAMBDA u : ScoreOf(u) = score)

PrioritizeIsStable ==
    pc = "prioritized" =>
        \A u \in Range(input) :
            WithScore(output, ScoreOf(u)) = WithScore(input, ScoreOf(u))

\* the absolute URLs of the references of a page that are not skipped, one per
\* reference, in the order of the page
RECURSIVE Resolved(_, _)
Resolved(html, baseURL) ==
    IF html = <<>> THEN <<>>
    ELSE LET url == TrimSpace(Head(html))
             abs == makeAbsoluteURL(url, baseURL)
             rest == Resolved(Tail(html), baseURL)
         IN  IF \/ HasPrefix(url, "#")
                \/ HasPrefix(url, "javascript:")
                \/ HasPrefix(url, "mailto:")
                \/ abs.err
             THEN rest
             ELSE <<abs.url>> \o rest

FirstIndex(seq, x) == CHOOSE k \in 1..Len(seq) : seq[k] = x /\ \A m \in 1..(k - 1) : seq[m] # x

\* C20: ExtractURLsFromHTML returns the resolved URLs of the page without
\* duplicates, in the order of their first occurrence in the page.
ExtractFirstSeenOrder ==
    pc = "extracted" =>
        LET resolved == Resolved(input.html, input.baseURL)
        IN  /\ NoRepeat(output)
            /\ Range(output) = Range(resolved)
            /\ \A i, j \in 1..Len(output) :
                   i < j => FirstIndex(resolved, output[i]) < FirstIndex(resolved, output[j])

\* C20 witness: a page with two references to /list/ around a reference to /y
\* has been extracted: /list/ comes once, before /y.
ExtractCollapsedRepeat ==
    /\ pc = "extracted"
    /\ input = [html |-> <<" /list/ ", "/y", "/list/">>, baseURL |-> "https://a.example/x"]
    /\ output = <<"https://a.example/list/", "https://a.example/y">>

\* the step in which the orchestrator takes the response of a batch
BatchAnswered ==
    /\ caller = "orchestrator"
    /\ pc = "call"
    /\ pc' = "loop"
    /\ Len(allResults') > Len(allResults)

\* the frontier entries a step puts at the head of the frontier
Added == SubSeq(frontier', 1, Len(frontier') - Len(frontier))

\* C16: a result marked unsuccessful is skipped by the link extraction: a
\* response whose results are all unsuccessful creates no frontier entry.
UnsuccessfulResultsNotExtracted ==
    [][(/\ BatchAnswered
        /\ \A k \in (Len(allResults) + 1)..Len(allResults') : ~allResults'[k].Success)
       => frontier' = frontier]_vars

\* C17: the entries a response adds come from pages of the batch whose depth is
\* below maxDepth, each entry at the depth of such a page plus one; pages at
\* maxDepth add none.
DepthGatesContribution ==
    [][BatchAnswered =>
          /\ Len(frontier') >= Len(frontier)
          /\ SubSeq(frontier', Len(Added) + 1, Len(frontier')) = frontier
          /\ \A k \in 1..Len(Added) :
                 \E i \in 1..(Len(allResults') - Len(allResults)) :
                     /\ currentBatch[i].Depth < maxDepth
                     /\ Added[k].Depth = currentBatch[i].Depth + 1]_vars

\* C17 witness: a page found at depth maxDepth (an entry contributed by a page
\* one level up) has been processed, and the frontier has no entry beyond
\* maxDepth.
PageAtMaxDepthProcessed ==
    /\ maxDepth >= 1
    /\ pc = "loop"
    /\ \E e \in enqueued :
           /\ e.Depth = maxDepth
           /\ \E k \in 1..Len(dispatched) :
                  /\ dispatched[k].outcome = "ok"
                  /\ dispatched[k].added = Len(dispatched[k].urls)
                  /\ e.URL \in Range(dispatched[k].urls)
    /\ \A e \in enqueued : e.Depth <= maxDepth

\* C18: a seed that cannot be parsed ends the run with an error before any
\* dispatch, and every link put in the frontier parses, has the seed's host
\* and was not visited when it was put there.
MalformedSeedIsFatal ==
    /\ ParseFailsOf(startURL) =>
           /\ Len(dispatched) = 0
           /\ pc = "done" => retErr \notin {"nil", "none"}
    /\ \A e \in enqueued :
           \/ e.Depth = 0
           \/ /\ ~ParseFailsOf(e.URL)
              /\ HostnameOf(e.URL) = HostnameOf(startURL)

\* the scenario: seed at depth 0, maxDepth 1, maxURLs 5, batchSize 2, and the
\* seed answered with the page that has three links of the seed's host and one
\* of another host
ScenarioRun ==
    /\ startURL = "https://a.example/x"
    /\ maxDepth = 1
    /\ maxURLs = 5
    /\ batchSize = 2
    /\ Len(dispatched) >= 1
    /\ dispatched[1].outcome = "ok"
    /\ dispatched[1].added = 1
    /\ {"https://a.example/demo/1", "https://a.example/docs/overview",
        "https://a.example/y"} \subseteq {e.URL : e \in enqueued}

\* C19: in the scenario the aggregate holds the seed page first and at most 3
\* further pages, no page of another host, and no page twice.
EndToEndScenario ==
    ScenarioRun =>
        /\ Len(allResults) >= 1
        /\ allResults[1].URL = startURL
        /\ Len(allResults) <= 4
        /\ \A k \in 1..Len(allResults) :
               HostnameOf(allResults[k].URL) = HostnameOf(startURL)
        /\ NoRepeat(ResultURLs)

\* C19 witness: the scenario has run to its end with the seed page and the
\* three pages of the seed's host in the aggregate.
ScenarioComplete ==
    /\ ScenarioRun
    /\ pc = "done"
    /\ Len(allResults) = 4
    /\ retSuccess

NewEntriesAtHead ==
    [][(caller = "orchestrator" /\ pc = "call" /\ pc' = "loop") =>
          /\ Len(frontier') >= Len(frontier)
          /\ \A k \in 1..Len(frontier) :
                 frontier'[Len(frontier') - Len(frontier) + k] = frontier[k]]_vars

\* C22 witness: entries found at depth 2 are queued ahead of entries found
\* earlier at depth 1.
DeeperEntriesAhead ==
    /\ pc = "loop"
    /\ \E i, j \in 1..Len(frontier) :
           /\ i < j
           /\ frontier[i].Depth = 2
           /\ frontier[j].Depth = 1

\* the URLs of the batches that failed all their attempts
FailedURLs ==
    UNION {Range(dispatched[k].urls) :
               k \in {m \in 1..Len(dispatched) : dispatched[m].outcome = "failed"}}

\* C23: a URL whose batch failed all its attempts stays visited, is in no later
\* batch, and no frontier entry is created for it afterwards.
FailedURLIsTerminal ==
    /\ [](/\ FailedURLs \subseteq visited
          /\ \A k, m \in 1..Len(dispatched) :
                 (k < m /\ dispatched[k].outcome = "failed") =>
                     Range(dispatched[k].urls) \cap Range(dispatched[m].urls) = {})
    /\ [][BatchAnswered =>
             \A k \in 1..Len(Added) : Added[k].URL \notin FailedURLs]_vars

\* a response arrives in this step and one of its results is unsuccessful
PartialResponseArrives ==
    /\ caller = "orchestrator"
    /\ pc = "call"
    /\ Len(allResults') > Len(allResults)
    /\ \E k \in (Len(allResults) + 1)..Len(allResults') : ~allResults'[k].Success

\* C24: a response that marks some of its URLs unsuccessful causes no retry:
\* StartCrawlWithRetry returns after that call, and no URL of an answered batch
\* is in a later batch.
PartialResponseNotRetried ==
    /\ [](\A k, m \in 1..Len(dispatched) :
              (k < m /\ dispatched[k].outcome = "ok") =>
                  Range(dispatched[k].urls) \cap Range(dispatched[m].urls) = {})
    /\ [][PartialResponseArrives =>
             /\ pc' = "loop"
             /\ attempt' = 0
             /\ currentBatch' = <<>>
             /\ Len(dispatched') = Len(dispatched)
             /\ dispatched'[Len(dispatched)].outcome = "ok"]_vars

\* C24 witness: a run has ended with an unsuccessful result in the aggregate
\* and a result of a later batch behind it.
UnsuccessfulResultAggregated ==
    /\ pc = "done"
    /\ \E k \in 1..Len(allResults) :
           /\ ~allResults[k].Success
           /\ k < Len(allResults)
    /\ \A k \in 1..Len(dispatched) : dispatched[k].outcome = "ok"

\* C25: once the run is cancelled no step removes or changes a result that is
\* aggregated, and the response returned holds the results aggregated by then,
\* in their order.
ResultsKeptAfterCancel ==
    [][(caller = "orchestrator" /\ cancelled) =>
          /\ Len(allResults') >= Len(allResults)
          /\ SubSeq(allResults', 1, Len(allResults)) = allResults
          /\ (pc # "done" /\ pc' = "done") =>
                 /\ combinedResponse'.Results = allResults
                 /\ combinedResponse'.Success = (Len(allResults) > 0)]_vars

\* C25 witness: a run in which the loop has seen the cancellation has returned
\* an aggregate of two or more results.
CancelledRunReturnedResults ==
    /\ pc = "done"
    /\ cancelObserved
    /\ Len(combinedResponse.Results) >= 2
    /\ Len(frontier) = 0

\* C26: the entries added to the frontier in one loop iteration are sorted by
\* priority as a whole: none comes after an entry of a lower score.
EnqueuedGroupSorted ==
    [][BatchAnswered =>
          \A i, j \in 1..Len(Added) :
              i < j => ScoreOf(Added[i].URL) >= ScoreOf(Added[j].URL)]_vars

\* the scores of the URLs of ScoredURLs worked out from the rule of the claim:
\* +10 hub substring (once), +8 /list, +3 trailing /, +2 no #, -5 low-value
\* substring (once)
ClaimedScore ==
    [u \in ScoredURLs |->
        CASE u = "https://a.example/x"                     -> 2
          [] u = "https://a.example/y"                     -> 2
          [] u = "https://a.example/docs/overview"         -> 10 + 2
          [] u = "https://a.example/demo/1"                -> 2 - 5
          [] u = "https://a.example/list/"                 -> 8 + 3 + 2
          [] u = "https://a.example/docs/list/"            -> 10 + 8 + 3 + 2
          [] u = "https://a.example/demo/1#top"            -> 0 - 5
          [] u = "https://a.example/DOCS/Overview"         -> 10 + 2
          [] u = "https://a.example/examples/playground/"  -> 10 + 3 + 2 - 5]

\* C27: the score prioritizeURLs gives a URL is the sum the claim describes,
\* matched without regard to case, and lies between -5 and 23.
ScoreIsSumOfParts ==
    pc = "prioritized" =>
        \A u \in Range(input) :
            /\ ScoreOf(u) = ClaimedScore[u]
            /\ ScoreOf(u) >= -5
            /\ ScoreOf(u) <= 23

\* C27 witness: prioritizeURLs has scored a URL of the highest score, one of
\* the lowest and one written in capitals.
ScoredExtremes ==
    /\ pc = "prioritized"
    /\ {"https://a.example/docs/list/", "https://a.example/demo/1#top",
        "https://a.example/DOCS/Overview"} \subseteq Range(input)
    /\ output[1] = "https://a.example/docs/list/"
    /\ output[3] = "https://a.example/demo/1#top"

\* a step of the orchestrator (not the cancellation of its context) at the top
\* of the loop, with the loop condition true
LoopEntered ==
    /\ caller = "orchestrator"
    /\ pc = "loop"
    /\ cancelled' = cancelled
    /\ Len(frontier) > 0
    /\ Len(allResults) < maxURLs

\* C28: a loop iteration removes exactly k = min(batchSize, |frontier|,
\* maxURLs - |results|) entries from the head of the frontier and dispatches
\* those of them that are not visited and have depth <= maxDepth, in their
\* order; the others are dropped, the batch is not topped up and never has
\* more than batchSize URLs.
DequeueTakesHead ==
    [][LoopEntered =>
          LET k == min(batchSize, min(Len(frontier), maxURLs - Len(allResults)))
              head == SubSeq(frontier, 1, k)
              chosen == SelectSeq(head, LAMBDA e : e.URL \notin visited /\ e.Depth <= maxDepth)
          IN  /\ frontier' = SubSeq(frontier, k + 1, Len(frontier))
              /\ IF chosen = <<>>
                 THEN dispatched' = dispatched
                 ELSE /\ Len(dispatched') = Len(dispatched) + 1
                      /\ dispatched'[Len(dispatched')].urls =
                             [n \in 1..Len(chosen) |-> chosen[n].URL]
                      /\ Len(dispatched'[Len(dispatched')].urls) <= batchSize]_vars

\* C28 witness: with batchSize 2 and room for two results a batch of one URL is
\* out (the other entry taken from the head was skipped), and the entry now at
\* the head of the frontier, which could be dispatched, was not taken instead.
SkippedEntryNotReplaced ==
    /\ pc = "call"
    /\ batchSize = 2
    /\ Len(currentBatch) = 1
    /\ maxURLs - Len(allResults) >= 2
    /\ Len(frontier) >= 1
    /\ frontier[1].URL \notin visited
    /\ frontier[1].Depth <= maxDepth

\* C29: the visited set only grows, and it grows only in the step that selects
\* a batch for dispatch, by the URLs of that batch; taking a response
\* (extracting, filtering, scoring, enqueueing) leaves it as it is.
VisitedGrowsAtSelection ==
    [][caller = "orchestrator" =>
          /\ visited \subseteq visited'
          /\ visited' # visited =>
                 /\ pc = "loop"
                 /\ pc' = "call"
                 /\ Len(dispatched') = Len(dispatched) + 1
                 /\ visited' = visited \cup Range(dispatched'[Len(dispatched')].urls)]_vars

\* C29 witness: a response has been taken and the frontier holds an entry it
\* discovered whose URL is not visited.
DiscoveredNotVisited ==
    /\ pc = "loop"
    /\ Len(allResults) >= 1
    /\ \E k \in 1..Len(frontier) :
           /\ frontier[k].Depth >= 1
           /\ frontier[k].URL \notin visited

\* C30: the results list is append-only: every step keeps the results
\* aggregated so far as a prefix, and the results a response adds stand behind
\* them in the order of the response (result i is the one for URL i of the batch).
ResultsAppendOnly ==
    [][caller = "orchestrator" =>
          /\ Len(allResults') >= Len(allResults)
          /\ \A k \in 1..Len(allResults) : allResults'[k] = allResults[k]
          /\ Len(allResults') > Len(allResults) =>
                 /\ pc = "call"
                 /\ \A n \in 1..(Len(allResults') - Len(allResults)) :
                        /\ n <= Len(currentBatch)
                        /\ allResults'[Len(allResults) + n].URL
                               \in ReportedURLs(currentBatch[n].URL)]_vars

\* C30 witness: two batches have been answered in full by a service that
\* reports the submitted URLs, and the aggregate holds their results, three or
\* more, in the order of dispatch.
ResultsInDispatchOrder ==
    /\ ServiceEchoes
    /\ Len(AnsweredBatches) >= 2
    /\ Len(allResults) >= 3
    /\ NoRepeat(ResultURLs)

\* the frontier entries the page of one result gives: its links, resolved
\* against the URL the result carries, at the depth of a batch entry plus one
Expansion(url, html, entry) ==
    IF entry.Depth < maxDepth /\ Cardinality(visited) < maxURLs
    THEN LET links == filterURLsForRecursive(ExtractOf(html, url), startURL, visited)
         IN  [k \in 1..Len(links) |-> [URL |-> links[k], Depth |-> entry.Depth + 1]]
    ELSE <<>>

RECURSIVE ExpansionsFrom(_, _, _)
ExpansionsFrom(bodies, i, n) ==
    IF i > n THEN <<>>
    ELSE Expansion(allResults'[Len(allResults) + i].URL, bodies[i], currentBatch[i])
             \o ExpansionsFrom(bodies, i + 1, n)

\* C31: results are matched with the batch by position: a response adds at most
\* as many results as the batch has entries, the links of result i enter the
\* frontier at the depth of batch entry i plus one, resolved against the URL
\* the result carries, and the aggregate never holds more than maxURLs results.
ResultsMatchedByPosition ==
    /\ [](Len(allResults) <= maxURLs)
    /\ [][BatchAnswered =>
              LET n == Len(allResults') - Len(allResults)
              IN  /\ n <= Len(currentBatch)
                  /\ \E bodies \in [1..n -> Bodies] :
                         Added = ExpansionsFrom(bodies, 1, n)]_vars

\* C31 witness: the batch entry of the redirecting URL was answered by a result
\* that carries the redirect's target, and the links of that page are at the
\* head of the frontier one level below the batch entry.
RedirectExpandedAtEntryDepth ==
    /\ pc = "loop"
    /\ Len(dispatched) >= 1
    /\ LET last == dispatched[Len(dispatched)]
       IN  /\ last.outcome = "ok"
           /\ last.urls = <<RedirectingURL>>
           /\ last.added = 1
    /\ allResults[Len(allResults)].URL = MovedURL
    /\ [URL |-> RedirectingURL, Depth |-> 1] \in enqueued
    /\ Len(frontier) >= 1
    /\ frontier[1] = [URL |-> "https://a.example/demo/1", Depth |-> 2]

\* C32: StartCrawlWithRetry with maxRetries = N makes at most N + 1 calls (call
\* number attempt + 1 is the one in progress), returns at the first call that
\* succeeds, and returns an error only when call N + 1 has failed or when the
\* cancellation is seen in a backoff wait.
RetryCallsBounded ==
    /\ [](attempt <= maxRetries)
    /\ [](pc = "done" => retErr \in {"nil", "failed", "cancelled"})
    /\ [][(pc = "call" /\ pc' # "call" /\ retErr' = "nil")
              => pc' = "done" /\ attempt' = attempt]_vars
    /\ [][(pc # "done" /\ pc' = "done" /\ retErr' = "failed")
              => /\ pc = "call"
                 /\ attempt = maxRetries
                 /\ StartCrawlWithConfig(resp').err # "nil"]_vars
    /\ [][(pc # "done" /\ pc' = "done" /\ retErr' = "cancelled")
              => pc = "backoff" /\ cancelled /\ attempt' = attempt]_vars
    /\ [][pc = "done" => pc' = "done" /\ attempt' = attempt]_vars

\* C32 witness: with maxRetries = 3 two calls failed, the third succeeded and
\* StartCrawlWithRetry returned it with one attempt unused.
ThirdCallSucceeded ==
    /\ caller = "direct"
    /\ maxRetries = 3
    /\ pc = "done"
    /\ retErr = "nil"
    /\ attempt = 2
    /\ waits = <<1, 4>>

\* C33: a response whose status is neither 200 nor 202 is a failure of the
\* call: StartCrawlWithRetry returns no result for it, goes to the next attempt
\* while attempts remain, and returns an error after the last one.
NonSuccessStatusRetried ==
    [][(pc = "call" /\ resp'.status \notin {-1, 0, 200, 202})
          => IF attempt < maxRetries
             THEN /\ pc' = "backoff"
                  /\ attempt' = attempt + 1
                  /\ retErr' = retErr
             ELSE /\ pc' = "done"
                  /\ retErr' = "failed"]_vars

\* C33 witness: the first call was answered with status 500 and the backoff
\* wait of the retry has started.
ServerErrorBeingRetried ==
    /\ caller = "direct"
    /\ pc = "backoff"
    /\ attempt = 1
    /\ resp = [status |-> 500, body |-> "json"]
    /\ retErr = "none"

Droppable(c) ==
    \/ HasPrefix(c, "#")
    \/ HasPrefix(ToLower(c), "javascript:")
    \/ HasPrefix(ToLower(c), "mailto:")

\* a candidate in absolute form: a scheme followed by "://"
IsAbsolute(c) == HasScheme(c) /\ Contains(c, "://")

\* what a kept candidate becomes
ExpectedURL(c, baseURL) == IF IsAbsolute(c) THEN c ELSE ResolveReference(baseURL, c)

\* C35: the URLs ExtractURLsFromHTML returns are those of the candidates that
\* do not begin with a fragment marker, a script-execution scheme or a mail
\* scheme: a candidate in absolute form as it is, any other resolved against
\* the URL of the page (one that cannot be resolved is left out).
ExtractDropsAndResolves ==
    pc \in {"extracted", "extracted again"} =>
        LET cands == [k \in 1..Len(input.html) |-> TrimSpace(input.html[k])]
            kept == {k \in 1..Len(cands) : ~Droppable(cands[k])}
            resolves(c) == IsAbsolute(c) \/ (~ParseFails(input.baseURL) /\ ~ParseFails(c))
        IN  /\ \A u \in Range(output) :
                   \E k \in kept : u = ExpectedURL(cands[k], input.baseURL)
            /\ \A k \in kept :
                   resolves(cands[k]) => ExpectedURL(cands[k], input.baseURL) \in Range(output)

\* C36: ExtractURLsFromHTML returns a nil error; a reference that cannot be
\* resolved adds nothing to its result, and every other reference that passes
\* the prefix test is in the result, whatever comes before it in the page.
ExtractionNeverFatal ==
    pc \in {"extracted", "extracted again"} =>
        LET cands == [k \in 1..Len(input.html) |-> TrimSpace(input.html[k])]
            passes(c) == ~(\/ HasPrefix(c, "#")
                           \/ HasPrefix(c, "javascript:")
                           \/ HasPrefix(c, "mailto:"))
            resolves(c) == \/ HasPrefix(c, "http://")
                           \/ HasPrefix(c, "https://")
                           \/ ~ParseFails(input.baseURL) /\ ~ParseFails(c)
            good == {k \in 1..Len(cands) : passes(cands[k]) /\ resolves(cands[k])}
        IN  /\ retErr = "nil"
            /\ Range(output) = {makeAbsoluteURL(cands[k], input.baseURL).url : k \in good}

\* C36 witness: a page whose first reference cannot be parsed has been
\* extracted, and the reference after it is in the result.
ExtractedPastMalformedReference ==
    /\ pc = "extracted"
    /\ input = [html |-> <<"/%zz", "/list/">>, baseURL |-> "https://a.example/x"]
    /\ output = <<"https://a.example/list/">>
    /\ retErr = "nil"

\* C37: StartBatchRecursiveCrawling returns a nil error, and the Success flag of
\* its response is true exactly when the aggregate holds a result: it is false
\* when no batch was answered, when maxURLs <= 0 and when batchSize <= 0.
SuccessIffResults ==
    (caller = "orchestrator" /\ pc = "done") =>
        /\ retErr = "nil"
        /\ combinedResponse.Success = (Len(combinedResponse.Results) > 0)
        /\ (\A k \in 1..Len(dispatched) : dispatched[k].outcome # "ok")
               => ~combinedResponse.Success
        /\ (maxURLs <= 0 \/ batchSize <= 0)
               => ~combinedResponse.Success /\ Len(dispatched) = 0

\* C37 witness: with maxURLs and batchSize positive the only batch failed all
\* its attempts, and the run returned Success = false with a nil error.
EveryBatchFailedRunReturned ==
    /\ caller = "orchestrator"
    /\ pc = "done"
    /\ maxURLs >= 1
    /\ batchSize >= 1
    /\ Len(dispatched) = 1
    /\ dispatched[1].outcome = "failed"
    /\ retErr = "nil"
    /\ ~combinedResponse.Success

\* C38: a step adds entries to the frontier only when the visited count is below
\* maxURLs at that moment, whatever the length of the frontier.
EnqueueGatedByVisitedCount ==
    [][Len(frontier') > Len(frontier) \/ enqueued' # enqueued
          => Cardinality(visited) < maxURLs]_vars

\* C38 witness: more entries wait in the frontier than maxURLs, put there while
\* the visited count was below maxURLs.
FrontierLongerThanCap ==
    /\ pc = "loop"
    /\ maxURLs >= 1
    /\ Len(frontier) > maxURLs
    /\ Cardinality(visited) < maxURLs
    /\ dispatched[Len(dispatched)].outcome = "ok"

\* C39 as a liveness property: once Complete has been called every call of
\* WaitForCompletion returns, whether it started before or after Complete and
\* however many goroutines wait; every call of Complete returns, and a call of
\* Complete on a reporter that is complete leaves complete, current and the
\* channel as they are.
WaitersAllReturn ==
    /\ \A g \in Waiters :
           (reporter.complete /\ callers[g] = "receiving") ~> (callers[g] = "returned")
    /\ \A g \in Completers : (callers[g] = "locked") ~> (callers[g] = "returned")
    /\ [][(reporter.complete /\ reporter.updateMutex # 0 /\ reporter'.updateMutex = 0)
              => /\ reporter'.complete
                 /\ reporter'.current = reporter.current
                 /\ reporter'.completeChan = reporter.completeChan]_vars

\* C39: every call of WaitForCompletion returns once Complete has been called.
\* Only the first Complete sends, so a goroutine at the receive can return only
\* if a value is there for it: when the reporter is complete and no Complete is
\* under way, a goroutine waiting in WaitForCompletion has a value to receive.
NoWaiterStuck ==
    \A g \in DOMAIN callers :
        (/\ reporter.complete
         /\ reporter.updateMutex = 0
         /\ callers[g] = "receiving") => reporter.completeChan > 0

====
